---- MODULE Spec2Model ----
(***************************************************************************)
(* Universe-Simulator: the object hierarchy (superclusters -> galaxy       *)
(* clusters -> galaxies -> star systems -> bodies), the pairwise gravity   *)
(* integrator and the stepping loop with its random quantum event.         *)
(*                                                                         *)
(* Two source files hold the core: src/classic_universe.py ("classic") and *)
(* src/Python Models/butterfly_effect.py ("butterfly").  CelestialBody and *)
(* StarSystem are the same in both; Universe.run and                       *)
(* Universe._random_quantum_event differ, and the variable `variant` says  *)
(* which file's Universe is running.                                       *)
(*                                                                         *)
(* Numbers.  The code computes in IEEE doubles: every operation rounds to  *)
(* a representable value.  The model computes in integers of model units:  *)
(* + and - are exact, / and sqrt round toward zero (Div, Sqrt), and the    *)
(* products of force_from (G and the masses are the large magnitudes)      *)
(* round to the nearest number of MANT significant bits, ties to even      *)
(* (Mul); update's products with the small integer dt are exact.  The      *)
(* units of length, mass and time are chosen so that the singularity       *)
(* threshold 1e-10 m^2 is R2_MIN units of squared length and the           *)
(* gravitational constant is G units.                                      *)
(***************************************************************************)
EXTENDS Integers, Sequences, FiniteSets, TLC

VARIABLES
    variant,        \* "classic" | "butterfly": which file's Universe runs
    superclusters,  \* Universe.superclusters: the hierarchy, by declaration order
    star_system,    \* the StarSystem objects, by identity
    moons,          \* Planet.moons of every Planet object
    body,           \* the CelestialBody objects, by identity
    steps, dt,      \* the arguments of Universe.run / StarSystem.integrate
    pc,             \* position of the caller in Universe.run
    k,              \* run's loop counter
    pos,            \* run's position in the pass over the star systems
    total_systems,  \* classic run's local of that name: <<>> while unbound, <<n>> once assigned
    err,            \* the exception that escaped, or "none"
    calls,          \* history: per star system, the steps at which integrate was called
    quantumAt,      \* history: the steps at which a quantum event was attempted
    nSpin,          \* history: number of spin measurements printed
    nEmpty,         \* history: number of quantum events that met an empty level
    lastEvent,      \* history: outcome of the latest quantum event
    call,           \* history: the latest integrate call (bodies, forces, state before)
    body0           \* history: the bodies as constructed

vars == <<variant, superclusters, star_system, moons, body, steps, dt, pc, k, pos,
          total_systems, err, calls, quantumAt, nSpin, nEmpty, lastEvent, call, body0>>

\* Python's None, as a reference that is no object
None == 0

(***************************************************************************)
(* Bounds of the model.                                                    *)
(***************************************************************************)
MaxSteps == 6    \* largest `steps` handed to Universe.run
MaxCalls == 2    \* direct StarSystem.integrate calls on one system

(***************************************************************************)
(* Program constants, in model units.                                      *)
(***************************************************************************)
G == 6
R2_MIN == 2
MANT == 3    \* significand bits of a float

(***************************************************************************)
(* Arithmetic.                                                             *)
(***************************************************************************)
Abs(a) == IF a < 0 THEN -a ELSE a

Sgn(a) == IF a < 0 THEN -1 ELSE IF a > 0 THEN 1 ELSE 0

\* a / b, rounded toward zero
Div(a, b) == Sgn(a) * Sgn(b) * (Abs(a) \div Abs(b))

\* math.sqrt, rounded toward zero
Sqrt(a) == CHOOSE r \in 0..a : r * r <= a /\ (r + 1) * (r + 1) > a

\* the weight of the last significand bit of a >= 0
RECURSIVE Ulp(_, _)
Ulp(a, u) == IF a < (2 ^ MANT) * u THEN u ELSE Ulp(a, 2 * u)

\* the float nearest to a: MANT significant bits, ties to the even significand
Fl(a) ==
    LET u == Ulp(Abs(a), 1)
        q == Abs(a) \div u
        r == Abs(a) % u
    IN  Sgn(a) * u * (IF 2 * r > u \/ (2 * r = u /\ q % 2 = 1) THEN q + 1 ELSE q)

\* a * b in force_from: each float product is rounded as it is formed
Mul(a, b) == Fl(a * b)

(***************************************************************************)
(* CelestialBody.                                                          *)
(***************************************************************************)
CelestialBody(name, mass, x, y, vx, vy) ==
    [name |-> name, mass |-> mass, x |-> x, y |-> y, vx |-> vx, vy |-> vy]

\* the singularity guard written with a threshold of 1 instead of R2_MIN
force_from_low_threshold(self, other) ==
    LET dx == other.x - self.x
        dy == other.y - self.y
        r2 == Mul(dx, dx) + Mul(dy, dy)
    IN  IF r2 < 1
        THEN <<0, 0>>
        ELSE LET F == Div(Mul(Mul(G, self.mass), other.mass), r2)
                 r == Sqrt(r2)
             IN  <<Div(Mul(F, dx), r), Div(Mul(F, dy), r)>>

force_from(self, other) ==
    LET dx == other.x - self.x
        dy == other.y - self.y
        r2 == Mul(dx, dx) + Mul(dy, dy)
    IN  IF r2 < R2_MIN
        THEN <<0, 0>>
        ELSE LET F == Div(Mul(Mul(G, self.mass), other.mass), r2)
                 r == Sqrt(r2)
             IN  <<Div(Mul(F, dx), r), Div(Mul(F, dy), r)>>

\* the guard written as `mass == 0`: a body of negative mass integrates
update_eq_guard(self, fx, fy, dt_) ==
    IF self.mass = 0
    THEN self
    ELSE LET ax == Div(fx, self.mass)
             ay == Div(fy, self.mass)
             vx1 == self.vx + ax * dt_
             vy1 == self.vy + ay * dt_
         IN  [self EXCEPT !.vx = vx1, !.vy = vy1,
                          !.x = self.x + vx1 * dt_, !.y = self.y + vy1 * dt_]

\* the position advanced before the velocity: x += vx*dt with the old vx
update_position_first(self, fx, fy, dt_) ==
    IF self.mass <= 0
    THEN self
    ELSE LET ax == Div(fx, self.mass)
             ay == Div(fy, self.mass)
         IN  [self EXCEPT !.x = self.x + self.vx * dt_, !.y = self.y + self.vy * dt_,
                          !.vx = self.vx + ax * dt_, !.vy = self.vy + ay * dt_]

\* the velocity increment written to the wrong attribute: self.mass += ax*dt
update_writes_mass(self, fx, fy, dt_) ==
    IF self.mass <= 0
    THEN self
    ELSE LET ax == Div(fx, self.mass)
             ay == Div(fy, self.mass)
             vy1 == self.vy + ay * dt_
         IN  [self EXCEPT !.mass = self.mass + ax * dt_, !.vy = vy1,
                          !.x = self.x + self.vx * dt_, !.y = self.y + vy1 * dt_]

update(self, fx, fy, dt_) ==
    IF self.mass <= 0
    THEN self
    ELSE LET ax == Div(fx, self.mass)
             ay == Div(fy, self.mass)
             vx1 == self.vx + ax * dt_
             vy1 == self.vy + ay * dt_
         IN  [self EXCEPT !.vx = vx1, !.vy = vy1,
                          !.x = self.x + vx1 * dt_, !.y = self.y + vy1 * dt_]

(***************************************************************************)
(* StarSystem.                                                             *)
(***************************************************************************)
StarSystem(name, primary, planets, asteroids, stellar_remnants) ==
    [name |-> name, primary |-> primary, planets |-> planets,
     asteroids |-> asteroids, stellar_remnants |-> stellar_remnants]

RECURSIVE MoonsOf(_, _)
MoonsOf(planets, mo) ==
    IF planets = <<>> THEN <<>>
    ELSE mo[Head(planets)] \o MoonsOf(Tail(planets), mo)

\* integrate's `bodies`: primary, planets, asteroids, remnants, then every planet's moons
Flatten(ss, mo) ==
    <<ss.primary>> \o ss.planets \o ss.asteroids \o ss.stellar_remnants
        \o MoonsOf(ss.planets, mo)

\* the (i, j) of integrate's two loops, in the order the loops visit them
RECURSIVE PairsFrom(_, _, _)
PairsFrom(i, j, n) ==
    IF i > n THEN <<>>
    ELSE IF j > n THEN PairsFrom(i + 1, i + 2, n)
    ELSE <<<<i, j>>>> \o PairsFrom(i, j + 1, n)

\* both loops over range(n): every ordered pair with i # j
RECURSIVE OrderedPairsFrom(_, _, _)
OrderedPairsFrom(i, j, n) ==
    IF i > n THEN <<>>
    ELSE IF j > n THEN OrderedPairsFrom(i + 1, 1, n)
    ELSE IF i = j THEN OrderedPairsFrom(i, j + 1, n)
    ELSE <<<<i, j>>>> \o OrderedPairsFrom(i, j + 1, n)

Pairs_both_orders(n) == OrderedPairsFrom(1, 1, n)

Pairs(n) == PairsFrom(1, 2, n)

\* forces[i] += f; forces[j] += f   (the reaction added instead of subtracted)
AddPair_same_sign(forces, i, j, f) ==
    [forces EXCEPT ![i] = <<@[1] + f[1], @[2] + f[2]>>,
                   ![j] = <<@[1] + f[1], @[2] + f[2]>>]

\* forces[i] += f only: the reaction on body j is left out
AddPair_no_reaction(forces, i, j, f) ==
    [forces EXCEPT ![i] = <<@[1] + f[1], @[2] + f[2]>>]

\* forces[i] += f; forces[j] -= f
AddPair(forces, i, j, f) ==
    [forces EXCEPT ![i] = <<@[1] + f[1], @[2] + f[2]>>,
                   ![j] = <<@[1] - f[1], @[2] - f[2]>>]

\* The pairwise loop over `pairs`.  A None among the bodies has no force_from
\* and no x: the first pair that touches it raises AttributeError.  `evals`
\* records each force_from evaluation: the pair, the two bodies as read, the
\* result, and its place `at` among the calls integrate makes.
RECURSIVE Accumulate(_, _, _, _, _)
Accumulate(pairs, forces, evals, bodies, heap) ==
    IF pairs = <<>> THEN [raised |-> FALSE, forces |-> forces, evals |-> evals]
    ELSE LET i == Head(pairs)[1]
             j == Head(pairs)[2]
         IN  IF bodies[i] = None \/ bodies[j] = None
             THEN [raised |-> TRUE, forces |-> forces, evals |-> evals]
             ELSE LET f == force_from(heap[bodies[i]], heap[bodies[j]])
                  IN  Accumulate(Tail(pairs), AddPair(forces, i, j, f),
                                 Append(evals, [i |-> i, j |-> j, self |-> heap[bodies[i]],
                                                other |-> heap[bodies[j]], f |-> f,
                                                at |-> Len(evals) + 1]),
                                 bodies, heap)

\* for body, (fx, fy) in zip(bodies, forces): body.update(fx, fy, dt)
\* `updates` records each update call: the body, the force and dt handed to
\* it, and its place `at` after the `done` calls made before the loop.
RECURSIVE UpdateAll(_, _, _, _, _, _, _)
UpdateAll(i, bodies, forces, heap, updates, done, dt_) ==
    IF i > Len(bodies) THEN [body |-> heap, updates |-> updates]
    ELSE UpdateAll(i + 1, bodies, forces,
                   [heap EXCEPT ![bodies[i]] =
                        update(@, forces[i][1], forces[i][2], dt_)],
                   Append(updates, [body |-> bodies[i], fx |-> forces[i][1],
                                    fy |-> forces[i][2], dt |-> dt_,
                                    at |-> done + Len(updates) + 1]),
                   done, dt_)

NoCall == [sys |-> 0, bodies |-> <<>>, forces |-> <<>>, updated |-> <<>>,
           before |-> <<>>, dt |-> 0, raised |-> FALSE, evals |-> <<>>,
           updates |-> <<>>]

\* the early return taken only for an empty list
integrate_n_lt_1(s, ss, mo, heap, dt_) ==
    LET bodies == Flatten(ss, mo)
        n == Len(bodies)
        rec == [sys |-> s, bodies |-> bodies, forces |-> <<>>, updated |-> <<>>,
                before |-> heap, dt |-> dt_, raised |-> FALSE, evals |-> <<>>,
                updates |-> <<>>]
    IN  IF n < 1
        THEN [raised |-> FALSE, body |-> heap, call |-> rec]
        ELSE LET acc == Accumulate(Pairs(n), [i \in 1..n |-> <<0, 0>>], <<>>, bodies, heap)
             IN  IF acc.raised \/ None \in {bodies[i] : i \in 1..n}
                 THEN [raised |-> TRUE, body |-> heap,
                       call |-> [rec EXCEPT !.raised = TRUE, !.forces = acc.forces,
                                            !.evals = acc.evals]]
                 ELSE LET upd == UpdateAll(1, bodies, acc.forces, heap, <<>>,
                                           Len(acc.evals), dt_)
                      IN  [raised |-> FALSE, body |-> upd.body,
                           call |-> [rec EXCEPT !.forces = acc.forces, !.updated = bodies,
                                                !.evals = acc.evals,
                                                !.updates = upd.updates]]

\* the two loops fused: body i is updated as soon as row i of the pair loop
\* is done, while later rows are still to be accumulated
RECURSIVE FusedRows(_, _, _, _, _, _, _)
FusedRows(i, bodies, forces, heap, evals, updates, dt_) ==
    IF i > Len(bodies)
    THEN [raised |-> FALSE, body |-> heap, forces |-> forces, evals |-> evals,
          updates |-> updates]
    ELSE LET row == [m \in 1..(Len(bodies) - i) |-> <<i, i + m>>]
             acc == Accumulate(row, forces, evals, bodies, heap)
         IN  IF acc.raised \/ bodies[i] = None
             THEN [raised |-> TRUE, body |-> heap, forces |-> acc.forces,
                   evals |-> acc.evals, updates |-> updates]
             ELSE FusedRows(i + 1, bodies, acc.forces,
                            [heap EXCEPT ![bodies[i]] =
                                 update(@, acc.forces[i][1], acc.forces[i][2], dt_)],
                            acc.evals,
                            Append(updates, [body |-> bodies[i], fx |-> acc.forces[i][1],
                                             fy |-> acc.forces[i][2], dt |-> dt_,
                                             at |-> Len(acc.evals) + Len(updates) + 1]),
                            dt_)

integrate_fused(s, ss, mo, heap, dt_) ==
    LET bodies == Flatten(ss, mo)
        n == Len(bodies)
        rec == [sys |-> s, bodies |-> bodies, forces |-> <<>>, updated |-> <<>>,
                before |-> heap, dt |-> dt_, raised |-> FALSE, evals |-> <<>>,
                updates |-> <<>>]
    IN  IF n < 2
        THEN [raised |-> FALSE, body |-> heap, call |-> rec]
        ELSE LET run == FusedRows(1, bodies, [i \in 1..n |-> <<0, 0>>], heap, <<>>, <<>>, dt_)
             IN  IF run.raised
                 THEN [raised |-> TRUE, body |-> heap,
                       call |-> [rec EXCEPT !.raised = TRUE, !.forces = run.forces,
                                            !.evals = run.evals]]
                 ELSE [raised |-> FALSE, body |-> run.body,
                       call |-> [rec EXCEPT !.forces = run.forces, !.updated = bodies,
                                            !.evals = run.evals,
                                            !.updates = run.updates]]

\* gravity across systems: the bodies of the system, then the first body of
\* the universe that is none of them
integrate_universe(s, ss, mo, heap, dt_) ==
    LET own == Flatten(ss, mo)
        others == SelectSeq([b \in 1..Len(heap) |-> b],
                            LAMBDA b : \A i \in 1..Len(own) : own[i] # b)
        bodies == own \o SubSeq(others, 1, 1)
        n == Len(bodies)
        rec == [sys |-> s, bodies |-> bodies, forces |-> <<>>, updated |-> <<>>,
                before |-> heap, dt |-> dt_, raised |-> FALSE, evals |-> <<>>,
                updates |-> <<>>]
    IN  IF n < 2
        THEN [raised |-> FALSE, body |-> heap, call |-> rec]
        ELSE LET acc == Accumulate(Pairs(n), [i \in 1..n |-> <<0, 0>>], <<>>, bodies, heap)
             IN  IF acc.raised
                 THEN [raised |-> TRUE, body |-> heap,
                       call |-> [rec EXCEPT !.raised = TRUE, !.forces = acc.forces,
                                            !.evals = acc.evals]]
                 ELSE LET upd == UpdateAll(1, bodies, acc.forces, heap, <<>>,
                                           Len(acc.evals), dt_)
                      IN  [raised |-> FALSE, body |-> upd.body,
                           call |-> [rec EXCEPT !.forces = acc.forces, !.updated = bodies,
                                                !.evals = acc.evals,
                                                !.updates = upd.updates]]

\* StarSystem.integrate(dt) on the system object s: what escapes, the bodies
\* after the call, and the record of the call.
integrate(s, ss, mo, heap, dt_) ==
    LET bodies == Flatten(ss, mo)
        n == Len(bodies)
        rec == [sys |-> s, bodies |-> bodies, forces |-> <<>>, updated |-> <<>>,
                before |-> heap, dt |-> dt_, raised |-> FALSE, evals |-> <<>>,
                updates |-> <<>>]
    IN  IF n < 2
        THEN [raised |-> FALSE, body |-> heap, call |-> rec]
        ELSE LET acc == Accumulate(Pairs(n), [i \in 1..n |-> <<0, 0>>], <<>>, bodies, heap)
             IN  IF acc.raised
                 THEN [raised |-> TRUE, body |-> heap,
                       call |-> [rec EXCEPT !.raised = TRUE, !.forces = acc.forces,
                                            !.evals = acc.evals]]
                 ELSE LET upd == UpdateAll(1, bodies, acc.forces, heap, <<>>,
                                           Len(acc.evals), dt_)
                      IN  [raised |-> FALSE, body |-> upd.body,
                           call |-> [rec EXCEPT !.forces = acc.forces, !.updated = bodies,
                                                !.evals = acc.evals,
                                                !.updates = upd.updates]]

(***************************************************************************)
(* Containers.                                                             *)
(***************************************************************************)
SuperCluster(name, galaxy_clusters) ==
    [name |-> name, galaxy_clusters |-> galaxy_clusters]

GalaxyCluster(name, galaxies) ==
    [name |-> name, galaxies |-> galaxies]

Galaxy(name, star_systems) ==
    [name |-> name, star_systems |-> star_systems, nebulae |-> <<>>,
     globular_clusters |-> <<>>, central_black_hole |-> None, quasar |-> None]

Nebula(name, nebula_type, mass, x, y, size) ==
    [name |-> name, nebula_type |-> nebula_type, mass |-> mass, x |-> x, y |-> y,
     size |-> size]

GlobularCluster(name, star_count, mass, x, y) ==
    [name |-> name, star_count |-> star_count, mass |-> mass, x |-> x, y |-> y]

Quasar(name, luminosity, central_black_hole_mass, x, y) ==
    [name |-> name, luminosity |-> luminosity,
     central_black_hole_mass |-> central_black_hole_mass, x |-> x, y |-> y]

RECURSIVE Concat(_)
Concat(ss) == IF ss = <<>> THEN <<>> ELSE Head(ss) \o Concat(Tail(ss))

\* The star systems in the order run's four nested loops reach them.
SystemsOfCluster(gc) == Concat([g \in 1..Len(gc.galaxies) |-> gc.galaxies[g].star_systems])

SystemsOfSuperCluster(sc) ==
    Concat([c \in 1..Len(sc.galaxy_clusters) |-> SystemsOfCluster(sc.galaxy_clusters[c])])

\* the superclusters walked from the last to the first
Order_reversed(scs) ==
    Concat([i \in 1..Len(scs) |-> SystemsOfSuperCluster(scs[Len(scs) + 1 - i])])

Order(scs) == Concat([i \in 1..Len(scs) |-> SystemsOfSuperCluster(scs[i])])

(***************************************************************************)
(* Universe._random_quantum_event.                                         *)
(***************************************************************************)
Outcome(kind, level, s, name, spin, exc, escaped) ==
    [kind |-> kind, level |-> level, sys |-> s, name |-> name, spin |-> spin,
     exc |-> exc, escaped |-> escaped]

NoEvent == Outcome("none", "", 0, "", "", "none", FALSE)

\* butterfly's handler narrowed to AttributeError: random.choice's IndexError escapes
OnEmpty_uncaught(v, level) ==
    IF v = "classic" \/ level = "star_systems"
    THEN Outcome("skipped", level, 0, "", "", "none", FALSE)
    ELSE Outcome("skipped", level, 0, "", "", "IndexError", TRUE)

\* The walk meets an empty list at `level`.  classic returns on `if not ...`
\* at every level; butterfly guards only star_systems, and at the levels above
\* random.choice([]) raises IndexError inside the try, which `except Exception`
\* swallows.
OnEmpty(v, level) ==
    IF v = "classic" \/ level = "star_systems"
    THEN Outcome("skipped", level, 0, "", "", "none", FALSE)
    ELSE Outcome("skipped", level, 0, "", "", "IndexError", FALSE)

\* spin = random.choice(("up", "down")); print(... ss.primary.name ...).
\* A None primary has no name: AttributeError, caught by both handlers
\* (classic prints "Quantum event failed", butterfly passes).
Measure(v, s, sys, heap) ==
    IF sys[s].primary = None
    THEN {Outcome("failed", "primary", s, "", sp, "AttributeError", FALSE) : sp \in {"up", "down"}}
    ELSE {Outcome("spin", "", s, heap[sys[s].primary].name, sp, "none", FALSE) : sp \in {"up", "down"}}

InGalaxy(v, gal, sys, heap) ==
    IF gal.star_systems = <<>> THEN {OnEmpty(v, "star_systems")}
    ELSE UNION {Measure(v, gal.star_systems[i], sys, heap) : i \in 1..Len(gal.star_systems)}

InCluster(v, gc, sys, heap) ==
    IF gc.galaxies = <<>> THEN {OnEmpty(v, "galaxies")}
    ELSE UNION {InGalaxy(v, gc.galaxies[i], sys, heap) : i \in 1..Len(gc.galaxies)}

InSuperCluster(v, sc, sys, heap) ==
    IF sc.galaxy_clusters = <<>> THEN {OnEmpty(v, "galaxy_clusters")}
    ELSE UNION {InCluster(v, sc.galaxy_clusters[i], sys, heap) : i \in 1..Len(sc.galaxy_clusters)}

\* no try around the walk: random.choice of an empty superclusters list escapes
random_quantum_event_unguarded(v, scs, sys, heap) ==
    IF scs = <<>> THEN {Outcome("skipped", "superclusters", 0, "", "", "IndexError", TRUE)}
    ELSE UNION {InSuperCluster(v, scs[i], sys, heap) : i \in 1..Len(scs)}

\* every outcome the random walk can have
random_quantum_event(v, scs, sys, heap) ==
    IF scs = <<>> THEN {OnEmpty(v, "superclusters")}
    ELSE UNION {InSuperCluster(v, scs[i], sys, heap) : i \in 1..Len(scs)}

(***************************************************************************)
(* The objects the builder constructs.  Sol is a full system (primary,     *)
(* planet with a moon, a massless asteroid, a remnant closer to the        *)
(* primary than the singularity threshold); Lone has a primary only; Null  *)
(* and NullLone were constructed with primary = None.                      *)
(***************************************************************************)
DemoBodies ==
    <<CelestialBody("Sun", 3, 1, 1, 0, 0),
      CelestialBody("Earth", 1, 3, 1, 0, 1),
      CelestialBody("Moon", 1, 3, 3, 1, 0),
      CelestialBody("Ceres", 0, 0, 3, 1, 0),
      CelestialBody("WD", 2, 1, 0, 0, -1),
      CelestialBody("Proxima", 2, 0, 0, 1, 1),
      CelestialBody("Orphan", 1, 2, 2, 0, 0),
      CelestialBody("Alpha", 5, 2, 0, 0, 1),
      CelestialBody("Beta", 3, 0, 2, 1, 0),
      CelestialBody("SgrA", 5, 2, 1, 0, 0)>>

DemoMoons == [p \in {2, 7, 9} |-> IF p = 2 THEN <<3>> ELSE <<>>]

DemoSystems ==
    <<StarSystem("Sol", 1, <<2>>, <<4>>, <<5>>),
      StarSystem("Lone", 6, <<>>, <<>>, <<>>),
      StarSystem("Null", None, <<7>>, <<>>, <<>>),
      StarSystem("NullLone", None, <<>>, <<>>, <<>>),
      StarSystem("Binary", 8, <<9>>, <<>>, <<>>)>>

OneGalaxy(systems) ==
    <<SuperCluster("SC", <<GalaxyCluster("GC", <<Galaxy("Gal", systems)>>)>>)>>

\* a galaxy decorated as build_demo_universe decorates its own: two nebulae, a
\* globular cluster, a quasar and the central black hole (body 10)
DemoGalaxy(systems) ==
    [Galaxy("MilkyWay", systems) EXCEPT
        !.nebulae = <<Nebula("Orion", "emission", 4, 3, 2, 1),
                      Nebula("Crab", "supernova", 2, 5, 4, 1)>>,
        !.globular_clusters = <<GlobularCluster("M13", 3, 6, -1, 2)>>,
        !.quasar = Quasar("Toy", 7, 5, 0, 0),
        !.central_black_hole = 10]

\* The hierarchies handed to run.
Hierarchies ==
    { <<>>,
      <<SuperCluster("SC", <<>>)>>,
      <<SuperCluster("SC", <<GalaxyCluster("GC", <<>>)>>)>>,
      OneGalaxy(<<>>),
      OneGalaxy(<<1>>),
      OneGalaxy(<<1, 2>>),
      OneGalaxy(<<2, 2>>),
      OneGalaxy(<<4>>),
      OneGalaxy(<<2, 3>>),
      OneGalaxy(<<5>>),
      OneGalaxy(<<5, 1>>),
      <<SuperCluster("Laniakea", <<GalaxyCluster("Virgo", <<DemoGalaxy(<<1, 5>>)>>)>>)>>,
      <<SuperCluster("SC1", <<GalaxyCluster("GC1", <<Galaxy("G1", <<2>>), Galaxy("G2", <<>>)>>),
                              GalaxyCluster("GC2", <<>>)>>),
        SuperCluster("SC2", <<>>),
        SuperCluster("SC3", <<GalaxyCluster("GC3", <<Galaxy("G3", <<1>>)>>)>>)>> }

DTs == {1, 2}

(***************************************************************************)
(* Universe.run(steps, dt).                                                *)
(***************************************************************************)
Init ==
    /\ variant \in {"classic", "butterfly"}
    /\ superclusters \in Hierarchies
    /\ star_system = DemoSystems
    /\ moons = DemoMoons
    /\ body = DemoBodies
    /\ body0 = DemoBodies
    /\ steps \in 0..MaxSteps
    /\ dt \in DTs
    /\ pc = "call"
    /\ k = 0
    /\ pos = 0
    /\ total_systems = <<>>
    /\ err = "none"
    /\ calls = [s \in DOMAIN DemoSystems |-> <<>>]
    /\ quantumAt = <<>>
    /\ nSpin = 0
    /\ nEmpty = 0
    /\ lastEvent = NoEvent
    /\ call = NoCall

\* `for k in range(steps)` reaches k1: the next iteration starts (classic
\* rebinds total_systems = 0), or the loop is over.
LoopHead(k1) ==
    /\ k' = k1
    /\ IF k1 < steps
       THEN /\ pc' = "systems"
            /\ pos' = 1
            /\ total_systems' = IF variant = "classic" THEN <<0>> ELSE total_systems
       ELSE /\ pc' = "finish"
            /\ pos' = pos
            /\ total_systems' = total_systems

Frame == UNCHANGED <<variant, superclusters, star_system, moons, steps, dt, body0>>

EnterRun ==
    /\ pc = "call"
    /\ LoopHead(0)
    /\ Frame
    /\ UNCHANGED <<body, err, calls, quantumAt, nSpin, nEmpty, lastEvent, call>>

\* ss.integrate(dt); total_systems += 1  -- for the next star system of the pass
IntegrateSystem ==
    /\ pc = "systems"
    /\ pos <= Len(Order(superclusters))
    /\ LET s == Order(superclusters)[pos]
           r == integrate(s, star_system[s], moons, body, dt)
       IN  /\ call' = r.call
           /\ calls' = [calls EXCEPT ![s] = Append(@, k)]
           /\ body' = r.body
           /\ IF r.raised
              THEN /\ pc' = "raised"
                   /\ err' = "AttributeError"
                   /\ UNCHANGED <<pos, total_systems>>
              ELSE /\ pc' = pc
                   /\ err' = err
                   /\ pos' = pos + 1
                   /\ total_systems' = IF variant = "classic"
                                       THEN <<total_systems[1] + 1>>
                                       ELSE total_systems
    /\ Frame
    /\ UNCHANGED <<k, quantumAt, nSpin, nEmpty, lastEvent>>

\* the four nested loops are exhausted
EndPass ==
    /\ pc = "systems"
    /\ pos > Len(Order(superclusters))
    /\ pc' = "event"
    /\ Frame
    /\ UNCHANGED <<body, k, pos, total_systems, err, calls, quantumAt, nSpin, nEmpty,
                   lastEvent, call>>

\* a quantum event that perturbs what it measures
QuantumEvent_integrating ==
    /\ pc = "event"
    /\ k % 2 = 0
    /\ \E o \in random_quantum_event(variant, superclusters, star_system, body) :
          /\ lastEvent' = o
          /\ quantumAt' = Append(quantumAt, k)
          /\ nSpin' = IF o.kind = "spin" THEN nSpin + 1 ELSE nSpin
          /\ nEmpty' = IF o.kind = "skipped" THEN nEmpty + 1 ELSE nEmpty
          /\ body' = IF o.kind = "spin"
                     THEN integrate(o.sys, star_system[o.sys], moons, body, dt).body
                     ELSE body
          /\ IF o.escaped
             THEN /\ pc' = "raised"
                  /\ err' = o.exc
                  /\ UNCHANGED <<k, pos, total_systems>>
             ELSE /\ err' = err
                  /\ LoopHead(k + 1)
    /\ Frame
    /\ UNCHANGED <<calls, call>>

\* if k % 2 == 0: self._random_quantum_event(k)
QuantumEvent ==
    /\ pc = "event"
    /\ k % 2 = 0
    /\ \E o \in random_quantum_event(variant, superclusters, star_system, body) :
          /\ lastEvent' = o
          /\ quantumAt' = Append(quantumAt, k)
          /\ nSpin' = IF o.kind = "spin" THEN nSpin + 1 ELSE nSpin
          /\ nEmpty' = IF o.kind = "skipped" THEN nEmpty + 1 ELSE nEmpty
          /\ IF o.escaped
             THEN /\ pc' = "raised"
                  /\ err' = o.exc
                  /\ UNCHANGED <<k, pos, total_systems>>
             ELSE /\ err' = err
                  /\ LoopHead(k + 1)
    /\ Frame
    /\ UNCHANGED <<body, calls, call>>

\* an odd step: no event
SkipEvent ==
    /\ pc = "event"
    /\ k % 2 # 0
    /\ LoopHead(k + 1)
    /\ Frame
    /\ UNCHANGED <<body, err, calls, quantumAt, nSpin, nEmpty, lastEvent, call>>

\* After the loop.  classic prints total_systems, which is bound only by the
\* loop body: with no iteration the read raises UnboundLocalError.  butterfly
\* has no statement after the loop.
ReturnRun ==
    /\ pc = "finish"
    /\ IF variant = "classic" /\ total_systems = <<>>
       THEN pc' = "raised" /\ err' = "UnboundLocalError"
       ELSE pc' = "returned" /\ err' = err
    /\ Frame
    /\ UNCHANGED <<body, k, pos, total_systems, calls, quantumAt, nSpin, nEmpty,
                   lastEvent, call>>

Next ==
    \/ EnterRun
    \/ IntegrateSystem
    \/ EndPass
    \/ QuantumEvent
    \/ SkipEvent
    \/ ReturnRun

Spec == Init /\ [][Next]_vars

(***************************************************************************)
(* StarSystem.integrate called directly, MaxCalls times in a row, on one   *)
(* star system whose shape, masses, positions and velocities are drawn     *)
(* from the sets below.                                                    *)
(***************************************************************************)
Masses == {-2, 0, 1, 3, 5}

\* squared distances from the primary at (1, 1): 0, 1, 2 (= R2_MIN), 4, 5
Points == {<<1, 1>>, <<1, 2>>, <<2, 2>>, <<3, 1>>, <<0, 3>>}

Velocities == {<<0, 0>>, <<1, -1>>}

Primaries == {CelestialBody("A", m, 1, 1, v[1], v[2]) : m \in Masses, v \in Velocities}

Companions ==
    {CelestialBody("B", m, p[1], p[2], v[1], v[2]) : m \in Masses, p \in Points, v \in Velocities}

Thirds == {CelestialBody("C", m, p[1], p[2], -1, 0) : m \in {0, 3}, p \in Points}

NoMoons == [p \in {} |-> <<>>]

Shapes ==
    { [sys |-> StarSystem("S", 1, <<>>, <<>>, <<>>), moons |-> NoMoons],
      [sys |-> StarSystem("S", None, <<>>, <<>>, <<>>), moons |-> NoMoons],
      [sys |-> StarSystem("S", 1, <<2>>, <<>>, <<>>), moons |-> [p \in {2} |-> <<>>]],
      [sys |-> StarSystem("S", 1, <<2>>, <<>>, <<>>), moons |-> [p \in {2} |-> <<3>>]],
      [sys |-> StarSystem("S", 1, <<>>, <<2>>, <<3>>), moons |-> NoMoons],
      [sys |-> StarSystem("S", 1, <<3>>, <<2>>, <<>>), moons |-> [p \in {3} |-> <<>>]],
      [sys |-> StarSystem("S", None, <<2>>, <<>>, <<>>), moons |-> [p \in {2} |-> <<>>]] }

\* the bodies a shape refers to
Used(sh) == {Flatten(sh.sys, sh.moons)[i] : i \in 1..Len(Flatten(sh.sys, sh.moons))} \ {None}

IntegrateInit ==
    /\ variant = "classic"
    /\ \E sh \in Shapes, b1 \in Primaries, b2 \in Companions, b3 \in Thirds :
          /\ star_system = <<sh.sys>>
          /\ moons = sh.moons
          /\ body = [i \in 1..3 |->
                        IF i \in Used(sh) THEN <<b1, b2, b3>>[i]
                        ELSE CelestialBody(<<"A", "B", "C">>[i], 1, 0, 0, 0, 0)]
    /\ body0 = body
    /\ superclusters = OneGalaxy(<<1>>)
    /\ steps = 0
    /\ dt \in DTs
    /\ pc = "direct"
    /\ k = 0
    /\ pos = 0
    /\ total_systems = <<>>
    /\ err = "none"
    /\ calls = <<<<>>>>
    /\ quantumAt = <<>>
    /\ nSpin = 0
    /\ nEmpty = 0
    /\ lastEvent = NoEvent
    /\ call = NoCall

\* ss.integrate(dt), called from outside run
DirectIntegrate ==
    /\ pc = "direct"
    /\ Len(calls[1]) < MaxCalls
    /\ LET r == integrate(1, star_system[1], moons, body, dt)
       IN  /\ call' = r.call
           /\ calls' = [calls EXCEPT ![1] = Append(@, Len(@))]
           /\ body' = r.body
           /\ pc' = IF r.raised THEN "raised" ELSE pc
           /\ err' = IF r.raised THEN "AttributeError" ELSE err
    /\ Frame
    /\ UNCHANGED <<k, pos, total_systems, quantumAt, nSpin, nEmpty, lastEvent>>

SpecIntegrate == IntegrateInit /\ [][DirectIntegrate]_vars

(***************************************************************************)
(* Properties.                                                             *)
(***************************************************************************)
Terminated == pc \in {"returned", "raised"}

Reachable == {Order(superclusters)[i] : i \in 1..Len(Order(superclusters))}

\* no star system object is listed twice in the hierarchy
ListedOnce ==
    \A i, j \in 1..Len(Order(superclusters)) :
        Order(superclusters)[i] = Order(superclusters)[j] => i = j

UpTo(n) == [i \in 1..n |-> i - 1]

RECURSIVE EvensBelow(_)
EvensBelow(n) ==
    IF n <= 0 THEN <<>>
    ELSE IF (n - 1) % 2 = 0 THEN Append(EvensBelow(n - 1), n - 1)
    ELSE EvensBelow(n - 1)

RECURSIVE SumOf(_, _)
SumOf(seq, c) == IF seq = <<>> THEN 0 ELSE Head(seq)[c] + SumOf(Tail(seq), c)

\* C1: when run(steps = N) is over, every reachable star system (each listed
\* once) has had integrate called exactly at steps 0..N-1, once each, and a
\* quantum event was attempted exactly at the even steps below N.
C1_CallsPerStep ==
    (Terminated /\ ListedOnce) =>
        /\ \A s \in Reachable : calls[s] = UpTo(steps)
        /\ quantumAt = EvensBelow(steps)

\* C2: run(steps = 0) returns normally, calls no integrate, attempts no
\* quantum event and leaves every body as it was.
C2_ZeroStepsNoOp ==
    steps = 0 =>
        /\ pc # "raised"
        /\ err = "none"
        /\ \A s \in DOMAIN calls : calls[s] = <<>>
        /\ quantumAt = <<>>
        /\ body = body0

\* C3: on a Universe without superclusters, run with steps >= 1 calls no
\* integrate, prints no spin measurement, raises nothing and runs to its return.
C3_EmptyUniverse ==
    (superclusters = <<>> /\ steps >= 1) =>
        /\ pc \in {"call", "systems", "event", "finish", "returned"}
        /\ err = "none"
        /\ \A s \in DOMAIN calls : calls[s] = <<>>
        /\ call = NoCall
        /\ nSpin = 0
        /\ body = body0
        /\ lastEvent.kind \in {"none", "skipped"}
        /\ k <= steps
        /\ pc = "finish" => k = steps
        /\ pc = "returned" => (k = steps /\ quantumAt = EvensBelow(steps))

C3_Witness ==
    /\ superclusters = <<>>
    /\ variant = "butterfly"
    /\ steps >= 3
    /\ pc = "returned"
    /\ Len(quantumAt) >= 2
    /\ lastEvent.exc = "IndexError"

\* C4: a quantum event whose walk meets an empty level lets no exception
\* escape and prints no spin measurement, and run goes on through every
\* remaining step to its return.
C4_EmptyLevelSkipped ==
    nEmpty > 0 =>
        /\ pc \in {"systems", "event", "finish", "returned"}
        /\ err = "none"
        /\ nSpin + nEmpty <= Len(quantumAt)
        /\ lastEvent.kind = "skipped" =>
              (lastEvent.sys = 0 /\ lastEvent.name = "" /\ ~lastEvent.escaped)
        /\ k > quantumAt[Len(quantumAt)]
        /\ pc = "finish" => k = steps
        /\ pc = "returned" =>
              /\ k = steps
              /\ quantumAt = EvensBelow(steps)
              /\ \A s \in Reachable : \A n \in 0..(steps - 1) :
                    \E i \in 1..Len(calls[s]) : calls[s][i] = n

C4_Witness ==
    /\ variant = "butterfly"
    /\ nEmpty >= 2
    /\ nSpin >= 1
    /\ lastEvent.kind = "skipped"
    /\ lastEvent.level = "galaxy_clusters"
    /\ pc = "returned"
    /\ steps >= 5

\* C5: a star system with a null primary cannot be constructed, so neither an
\* integrate call nor a quantum event ever meets one.
C5_NullPrimaryRejected ==
    /\ call.sys # 0 => star_system[call.sys].primary # None
    /\ lastEvent.sys # 0 => star_system[lastEvent.sys].primary # None

\* C6: after an integrate call over n >= 2 bodies that processed every pair,
\* the accumulated forces sum to (0, 0) over the bodies.
C6_ForcesSumToZero ==
    (call.sys # 0 /\ Len(call.bodies) >= 2 /\ ~call.raised) =>
        /\ Len(call.forces) = Len(call.bodies)
        /\ SumOf(call.forces, 1) = 0
        /\ SumOf(call.forces, 2) = 0

C6_Witness ==
    /\ Len(call.bodies) = 3
    /\ ~call.raised
    /\ \A i \in 1..3 : call.forces[i][1] # 0 /\ call.forces[i][2] # 0
    /\ call.forces[1] # call.forces[2]

\* the bodies of the latest integrate call
CallBodies == {call.bodies[i] : i \in 1..Len(call.bodies)} \ {None}

\* every fx / mass and fy / mass of the latest call's updates came out exact
ExactQuotients ==
    \A i \in 1..Len(call.forces) :
        LET m == call.before[call.bodies[i]].mass
        IN  m > 0 => (call.forces[i][1] % m = 0 /\ call.forces[i][2] % m = 0)

\* sum over the bodies of the latest call of mass * (v after - v before),
\* for the velocity component c
RECURSIVE MomentumChange(_, _)
MomentumChange(i, c) ==
    IF i > Len(call.bodies) THEN 0
    ELSE LET b == call.bodies[i]
         IN  (IF b = None THEN 0 ELSE body[b].mass * (body[b][c] - call.before[b][c]))
                 + MomentumChange(i + 1, c)

\* C7: one integrate call over bodies of mass >= 0 changes the total momentum
\* of the system by (0, 0), wherever the quotients force / mass are exact.
C7_MomentumConserved ==
    (call.sys # 0 /\ ~call.raised /\ ExactQuotients
        /\ \A b \in CallBodies : body[b].mass >= 0) =>
        /\ MomentumChange(1, "vx") = 0
        /\ MomentumChange(1, "vy") = 0

C7_Witness ==
    /\ Len(call.bodies) = 3
    /\ ~call.raised
    /\ ExactQuotients
    /\ \A b \in CallBodies : body[b].mass >= 0
    /\ \E a, b \in CallBodies :
          /\ a # b
          /\ body[a].mass > 1 /\ body[a].vx # call.before[a].vx
          /\ body[b].mass > 1 /\ body[b].vy # call.before[b].vy
    /\ \E b \in CallBodies : body[b].mass = 0
    /\ MomentumChange(1, "vx") = 0

\* C8: a quantum event leaves every body and every collection as it found them.
C8_QuantumEventNoEffect ==
    [][(pc = "event" /\ k % 2 = 0) =>
          /\ body' = body
          /\ moons' = moons
          /\ star_system' = star_system
          /\ superclusters' = superclusters]_vars

C8_Witness ==
    /\ lastEvent.kind = "spin"
    /\ lastEvent.sys = 1
    /\ nSpin >= 2
    /\ body # body0

Forces == {-5, 0, 7}

\* C9: a body of mass <= 0 is left unchanged by update, whatever the force
\* and dt, and so is where it was constructed after any number of integrate calls.
C9_NonPositiveMassFixed ==
    \A b \in DOMAIN body :
        body0[b].mass <= 0 =>
            /\ body[b] = body0[b]
            /\ \A fx, fy \in Forces : \A d \in DTs : update(body[b], fx, fy, d) = body[b]

C9_Witness ==
    /\ Len(calls[1]) >= 2
    /\ ~call.raised
    /\ Len(call.forces) = Len(call.bodies)
    /\ \E i \in 1..Len(call.bodies) :
          /\ call.bodies[i] # None
          /\ body0[call.bodies[i]].mass < 0
          /\ body0[call.bodies[i]].vx # 0
          /\ call.forces[i][1] # 0
          /\ body[call.bodies[i]] = body0[call.bodies[i]]
    /\ \E b \in CallBodies : body[b] # body0[b]

\* C10: on a system whose flattened list has fewer than 2 bodies, integrate
\* computes no force, calls no update, raises nothing and moves no body,
\* however often it is called.
C10_DegenerateNoOp ==
    Len(Flatten(star_system[1], moons)) < 2 =>
        /\ body = body0
        /\ pc # "raised"
        /\ call.forces = <<>>
        /\ call.updated = <<>>
        /\ ~call.raised

C10_Witness ==
    /\ Len(Flatten(star_system[1], moons)) < 2
    /\ star_system[1].primary # None
    /\ body[1].vx # 0
    /\ body[1].mass > 0
    /\ Len(calls[1]) >= 2
    /\ call.sys = 1

\* squared separation of two bodies
R2(a, b) == Mul(b.x - a.x, b.x - a.x) + Mul(b.y - a.y, b.y - a.y)

\* C11: force_from is antisymmetric: for any two bodies whose squared
\* separation is at or above the singularity threshold, the force on A from B
\* is the negation, component by component, of the force on B from A.
C11_ForceAntisymmetric ==
    \A a, b \in DOMAIN body :
        R2(body[a], body[b]) >= R2_MIN =>
            LET f == force_from(body[a], body[b])
            IN  force_from(body[b], body[a]) = <<-f[1], -f[2]>>

\* C12: for two bodies whose squared separation is strictly below the
\* threshold (coincident bodies included) force_from is exactly (0, 0)
\* whatever the masses, and evaluating it changes neither body: a pair
\* integrated from such a separation moves as under no force at all.
C12_SingularityGuard ==
    /\ \A a, b \in DOMAIN body :
          R2(body[a], body[b]) < R2_MIN => force_from(body[a], body[b]) = <<0, 0>>
    /\ (Len(call.updated) = 2 /\ R2(call.before[call.bodies[1]],
                                     call.before[call.bodies[2]]) < R2_MIN) =>
          /\ call.forces = <<(<<0, 0>>), (<<0, 0>>)>>
          /\ \A b \in CallBodies : body[b] = update(call.before[b], 0, 0, call.dt)

C12_Witness ==
    /\ Len(call.updated) = 2
    /\ R2(call.before[call.bodies[1]], call.before[call.bodies[2]]) = R2_MIN - 1
    /\ \A b \in CallBodies : call.before[b].mass > 0
    /\ call.forces = <<(<<0, 0>>), (<<0, 0>>)>>
    /\ \E a, b \in CallBodies :
          /\ a # b
          /\ R2(body[a], body[b]) < R2_MIN
          /\ body[a].mass # body[b].mass
          /\ body[a] # call.before[a]

\* C18: update on a body of mass > 0 sets the velocity to v + (f / mass) * dt
\* and then the position to p + v_new * dt: the position is advanced with the
\* velocity just computed, in both components, for every body of the call.
C18_VelocityThenPosition ==
    (call.sys # 0 /\ Len(call.updated) >= 2) =>
        \A i \in 1..Len(call.updated) :
            LET old == call.before[call.updated[i]]
                new == body[call.updated[i]]
                f == call.forces[i]
            IN  old.mass > 0 =>
                    /\ new.vx = old.vx + Div(f[1], old.mass) * call.dt
                    /\ new.vy = old.vy + Div(f[2], old.mass) * call.dt
                    /\ new.x = old.x + new.vx * call.dt
                    /\ new.y = old.y + new.vy * call.dt

C18_Witness ==
    /\ Len(call.updated) = 3
    /\ \A i \in 1..3 : call.before[call.updated[i]].mass > 0
    /\ \E i \in 1..3 :
          LET old == call.before[call.updated[i]]
              new == body[call.updated[i]]
          IN  /\ old.mass > 1
              /\ new.vx # old.vx /\ new.vy # old.vy
              /\ old.vx # 0 /\ old.vy # 0
              /\ new.x # old.x + old.vx * call.dt
              /\ new.y # old.y + old.vy * call.dt
              /\ new.x # old.x /\ new.y # old.y

\* the net force on the i-th body of the latest call, component c, from the
\* bodies at positions j..n as they stood when integrate was entered
RECURSIVE NetForce(_, _, _)
NetForce(i, j, c) ==
    IF j > Len(call.bodies) THEN 0
    ELSE (IF j = i THEN 0
          ELSE IF i < j
               THEN force_from(call.before[call.bodies[i]], call.before[call.bodies[j]])[c]
               ELSE -force_from(call.before[call.bodies[j]], call.before[call.bodies[i]])[c])
             + NetForce(i, j + 1, c)

\* C16: in integrate every force_from evaluation reads the bodies as they
\* stood when integrate was entered and comes before every update call; each
\* body of the flattened list then gets exactly one update call, in list
\* order, with its complete accumulated force and the caller's dt.
C16_ForcesBeforeUpdates ==
    (call.sys # 0 /\ ~call.raised /\ Len(call.bodies) >= 2) =>
        /\ \A e \in 1..Len(call.evals) :
              /\ call.evals[e].self = call.before[call.bodies[call.evals[e].i]]
              /\ call.evals[e].other = call.before[call.bodies[call.evals[e].j]]
              /\ \A u \in 1..Len(call.updates) : call.evals[e].at < call.updates[u].at
        /\ Len(call.updates) = Len(call.bodies)
        /\ \A i \in 1..Len(call.bodies) :
              /\ call.updates[i].body = call.bodies[i]
              /\ call.updates[i].fx = NetForce(i, 1, 1)
              /\ call.updates[i].fy = NetForce(i, 1, 2)
              /\ call.updates[i].dt = dt
              /\ body[call.bodies[i]] =
                     update(call.before[call.bodies[i]], NetForce(i, 1, 1),
                            NetForce(i, 1, 2), dt)

C16_Witness ==
    /\ Len(calls[1]) >= 2
    /\ ~call.raised
    /\ Len(call.updates) = 3
    /\ Len(call.evals) = 3
    /\ call.before # body0
    /\ \A i \in 1..3 :
          /\ call.before[call.bodies[i]].mass > 0
          /\ call.updates[i].fx # 0 \/ call.updates[i].fy # 0
          /\ body[call.bodies[i]].vx # call.before[call.bodies[i]].vx
                 \/ body[call.bodies[i]].vy # call.before[call.bodies[i]].vy

\* what the evaluations e..last of the latest call contribute to body m,
\* component c: + f where m is the first of the pair, - f where the second
RECURSIVE Contribution(_, _, _)
Contribution(m, e, c) ==
    IF e > Len(call.evals) THEN 0
    ELSE (IF call.evals[e].i = m THEN call.evals[e].f[c]
          ELSE IF call.evals[e].j = m THEN -call.evals[e].f[c]
          ELSE 0)
             + Contribution(m, e + 1, c)

\* C17: over the flattened list (primary, planets, asteroids, remnants, then
\* the moons of each planet) of n >= 2 bodies, integrate evaluates force_from
\* once for each pair i < j and for nothing else: n(n-1)/2 evaluations, none
\* with i = j, none repeated in either order; each result is added to body
\* i's sum and subtracted from body j's.
C17_EachPairOnce ==
    (call.sys # 0 /\ ~call.raised /\ Len(call.bodies) >= 2) =>
        LET n == Len(call.bodies)
            ss == star_system[call.sys]
        IN  /\ call.bodies = <<ss.primary>> \o ss.planets \o ss.asteroids
                                 \o ss.stellar_remnants \o MoonsOf(ss.planets, moons)
            /\ 2 * Len(call.evals) = n * (n - 1)
            /\ \A e \in 1..Len(call.evals) :
                  /\ 1 <= call.evals[e].i
                  /\ call.evals[e].i < call.evals[e].j
                  /\ call.evals[e].j <= n
                  /\ call.evals[e].f = force_from(call.before[call.bodies[call.evals[e].i]],
                                                  call.before[call.bodies[call.evals[e].j]])
                  /\ \A d \in 1..Len(call.evals) :
                        d # e => {call.evals[d].i, call.evals[d].j}
                                    # {call.evals[e].i, call.evals[e].j}
            /\ \A i, j \in 1..n :
                  i < j => \E e \in 1..Len(call.evals) :
                              call.evals[e].i = i /\ call.evals[e].j = j
            /\ \A m \in 1..n :
                  call.forces[m] = <<Contribution(m, 1, 1), Contribution(m, 1, 2)>>

C17_Witness ==
    /\ ~call.raised
    /\ call.bodies = <<1, 3, 2>>
    /\ Len(call.evals) = 3
    /\ \A e \in 1..3 : call.evals[e].f[1] # 0 /\ call.evals[e].f[2] # 0
    /\ \A m \in 1..3 : call.forces[m] # <<0, 0>>
    /\ call.forces[2] # call.evals[2].f
    /\ call.before # body0

\* the bodies of the flattened list of system s
BodiesOf(s) ==
    {Flatten(star_system[s], moons)[i] : i \in 1..Len(Flatten(star_system[s], moons))}
        \ {None}

\* the bodies after n integrate calls on system s and on no other system
RECURSIVE Alone(_, _)
Alone(s, n) ==
    IF n = 0 THEN body0
    ELSE integrate(s, star_system[s], moons, Alone(s, n - 1), dt).body

\* C13: star systems do not interact.  An integrate call on a system leaves
\* every body outside that system's flattened list as it was, and at every
\* point of run the bodies of a system are where that many integrate calls on
\* that system alone put them, whichever other systems the hierarchy lists
\* before or after it.
C13_SystemsIndependent ==
    /\ call.sys # 0 =>
          \A b \in DOMAIN body \ BodiesOf(call.sys) : body[b] = call.before[b]
    /\ \A s \in DOMAIN star_system :
          \E h \in {Alone(s, Len(calls[s]))} : \A b \in BodiesOf(s) : body[b] = h[b]

C13_Witness ==
    /\ pc = "returned"
    /\ Order(superclusters) = <<5, 1>>
    /\ Len(calls[1]) >= 3
    /\ Len(calls[5]) >= 3
    /\ \A b \in BodiesOf(5) : body[b].x # body0[b].x /\ body[b].vy # body0[b].vy
    /\ \E b \in BodiesOf(1) : body[b].x # body0[b].x /\ body[b].vx # body0[b].vx
    /\ call.sys = 1
    /\ call.before # body0

\* the places of the hierarchy that hold a star system: supercluster,
\* cluster, galaxy and list index
Slots ==
    UNION {UNION {UNION {
        {<<a, b, c, d>> :
            d \in 1..Len(superclusters[a].galaxy_clusters[b].galaxies[c].star_systems)} :
        c \in 1..Len(superclusters[a].galaxy_clusters[b].galaxies)} :
        b \in 1..Len(superclusters[a].galaxy_clusters)} :
        a \in 1..Len(superclusters)}

\* u is declared before v
Before(u, v) == \E i \in 1..4 : u[i] < v[i] /\ \A j \in 1..(i - 1) : u[j] = v[j]

\* the star systems in hierarchy-declaration order
DeclOrder ==
    [n \in 1..Cardinality(Slots) |->
        LET u == CHOOSE v \in Slots : Cardinality({w \in Slots : Before(w, v)}) = n - 1
        IN  superclusters[u[1]].galaxy_clusters[u[2]].galaxies[u[3]].star_systems[u[4]]]

\* how often system s stands among the first d of the declaration order
Times(s, d) == Cardinality({i \in 1..d : DeclOrder[i] = s})

\* C14: within a step of run the systems are integrated one at a time in
\* hierarchy-declaration order: when `pos - 1` integrate calls of step k are
\* done they are those of the first pos - 1 systems declared, the latest one
\* on the system declared at pos - 1, after full passes for the steps before.
\* The quantum event of step k comes only when every system has been
\* integrated for step k, and every event of an earlier even step has
\* happened before any system is integrated for step k.
C14_StepOrder ==
    LET n == Len(DeclOrder)
    IN  /\ pc \in {"systems", "event"} =>
              /\ pos \in 1..(n + 1)
              /\ pc = "event" => pos = n + 1
              /\ pos > 1 => call.sys = DeclOrder[pos - 1]
              /\ quantumAt = EvensBelow(k)
              /\ \A s \in DOMAIN star_system :
                    /\ Len(calls[s]) = k * Times(s, n) + Times(s, pos - 1)
                    /\ \A i \in 1..Len(calls[s]) : calls[s][i] = (i - 1) \div Times(s, n)
        /\ pc \in {"finish", "returned"} =>
              /\ quantumAt = EvensBelow(steps)
              /\ \A s \in DOMAIN star_system : Len(calls[s]) = steps * Times(s, n)

C14_Witness ==
    /\ pc = "systems"
    /\ Len(superclusters) = 3
    /\ Len(DeclOrder) = 2
    /\ k = 3
    /\ pos = 2
    /\ call.sys = 2
    /\ DeclOrder[2] = 1
    /\ calls[2] = <<0, 1, 2, 3>>
    /\ calls[1] = <<0, 1, 2>>
    /\ quantumAt = <<0, 2>>

\* the bodies of the star systems run reaches
ReachableBodies == UNION {BodiesOf(s) : s \in Reachable}

\* C15: run changes only kinematic state.  No step of run changes a body's
\* name or mass, a system's primary or its planet, asteroid, remnant or moon
\* lists, a container's members or a galaxy's nebulae, globular clusters,
\* quasar or central black hole; a body outside the reachable systems is not
\* changed at all, so only x, y, vx, vy of reachable bodies may differ.
C15_OnlyKinematics ==
    [][/\ superclusters' = superclusters
       /\ star_system' = star_system
       /\ moons' = moons
       /\ DOMAIN body' = DOMAIN body
       /\ \A b \in DOMAIN body :
             /\ body'[b].name = body[b].name
             /\ body'[b].mass = body[b].mass
             /\ b \notin ReachableBodies => body'[b] = body[b]]_vars

C15_Witness ==
    /\ pc = "returned"
    /\ steps >= 3
    /\ superclusters # <<>>
    /\ superclusters[1].name = "Laniakea"
    /\ superclusters[1].galaxy_clusters[1].galaxies[1].central_black_hole = 10
    /\ Len(superclusters[1].galaxy_clusters[1].galaxies[1].nebulae) = 2
    /\ body[10] = body0[10]
    /\ body[6] = body0[6]
    /\ \A b \in ReachableBodies :
          /\ body0[b].mass > 0 => (body[b].x # body0[b].x \/ body[b].y # body0[b].y)
          /\ body[b].mass = body0[b].mass
    /\ \E b \in ReachableBodies : body[b].vx # body0[b].vx /\ body[b].vy # body0[b].vy

====
